---- MODULE Spec2Model ----
(***************************************************************************)
(* Model of the Bitcoin tracker backend (src/main.py): the /bitcoin        *)
(* request handler track_price, the indicator pipeline it runs on the      *)
(* fetched bars, the signal rules of get_signals and the Telegram alert    *)
(* that runs as a background task.                                         *)
(*                                                                         *)
(* Floating point values are modelled in fixed point: a finite value x is  *)
(* the integer x * Scale, next to the IEEE values NaN, +inf, -inf and -0.  *)
(***************************************************************************)
EXTENDS Integers, Sequences, FiniteSets

VARIABLES
    pc,           \* position of the request in track_price / the background task
    chosen,       \* what the exchange will answer: the generator of the bars
    klines,       \* the raw bars client.get_klines returned
    df,           \* the data frame: one row per bar
    signals,      \* the list get_signals returned
    price,        \* df.iloc[-1]["close"]
    tasks,        \* background_tasks: the messages handed to add_task
    response,     \* the JSON response of the request, or NoResponse
    error,        \* the exception that ended the request, or "none"
    creds,        \* TELEGRAM_BOT_TOKEN and TELEGRAM_CHAT_ID are both set
    posted,       \* the messages requests.post was called with
    log,          \* the records written with logging.warning / logging.error
    taskError     \* the exception that left send_telegram_alert, or "none"

vars == <<pc, chosen, klines, df, signals, price, tasks, response, error,
          creds, posted, log, taskError>>

-----------------------------------------------------------------------------
(* Bounds of the model *)

\* fixed-point resolution: a finite float x is stored as x * Scale
Scale == 100
\* the exchange answers with 0 .. MaxBars bars
MaxBars == 52
\* a bar's close moves by -MaxStep .. MaxStep from one bar to the next; the
\* series alternates between two such steps
MaxStep == 1
\* the last bar jumps by -MaxShock, 0 or MaxShock on top of its step
MaxShock == 5
\* the close of the first bar: high enough for a falling series to stay positive
BasePrice == MaxStep * MaxBars + MaxShock + 3

-----------------------------------------------------------------------------
(* Floating point values *)

F(x) == [k |-> "num", v |-> x]
NaN == [k |-> "nan", v |-> 0]
PInf == [k |-> "inf", v |-> 0]
NInf == [k |-> "ninf", v |-> 0]
NZero == [k |-> "nzero", v |-> 0]
Zero == F(0)

IsNaN(a) == a.k = "nan"
IsZero(a) == a.k = "nzero" \/ (a.k = "num" /\ a.v = 0)
IsInf(a) == a.k \in {"inf", "ninf"}
Sign(a) == IF a.k \in {"ninf", "nzero"} \/ (a.k = "num" /\ a.v < 0) THEN -1 ELSE 1
Abs(n) == IF n < 0 THEN -n ELSE n
SignedInf(s) == IF s < 0 THEN NInf ELSE PInf
SignedZero(s) == IF s < 0 THEN NZero ELSE Zero

\* unary minus
FNeg(a) ==
    CASE a.k = "nan" -> NaN
      [] a.k = "inf" -> NInf
      [] a.k = "ninf" -> PInf
      [] a.k = "nzero" -> Zero
      [] OTHER -> IF a.v = 0 THEN NZero ELSE F(-a.v)

\* a + b
FAdd(a, b) ==
    CASE IsNaN(a) \/ IsNaN(b) -> NaN
      [] IsInf(a) /\ IsInf(b) -> IF a.k = b.k THEN a ELSE NaN
      [] IsInf(a) -> a
      [] IsInf(b) -> b
      [] a.k = "nzero" /\ b.k = "nzero" -> NZero
      [] OTHER -> F(a.v + b.v)

\* a - b
FSub(a, b) == FAdd(a, FNeg(b))

\* (n * Scale) / d for naturals n and d > 0, by long division so that no
\* intermediate product leaves the integers TLC computes with
ScaledQuot(n, d) == (n \div d) * Scale + ((n % d) * Scale) \div d

\* faulty variant of FDiv: every division by zero is undefined
FDivByZeroNaN(a, b) ==
    CASE IsNaN(a) \/ IsNaN(b) -> NaN
      [] IsInf(a) /\ IsInf(b) -> NaN
      [] IsInf(a) -> SignedInf(Sign(a) * Sign(b))
      [] IsInf(b) -> SignedZero(Sign(a) * Sign(b))
      [] IsZero(b) -> NaN
      [] OTHER ->
           LET q == ScaledQuot(Abs(a.v), Abs(b.v))
           IN IF q = 0 THEN SignedZero(Sign(a) * Sign(b))
              ELSE F(Sign(a) * Sign(b) * q)

\* a / b
FDiv(a, b) ==
    CASE IsNaN(a) \/ IsNaN(b) -> NaN
      [] IsInf(a) /\ IsInf(b) -> NaN
      [] IsInf(a) -> SignedInf(Sign(a) * Sign(b))
      [] IsInf(b) -> SignedZero(Sign(a) * Sign(b))
      [] IsZero(a) /\ IsZero(b) -> NaN
      [] IsZero(b) -> SignedInf(Sign(a) * Sign(b))
      [] OTHER ->
           LET q == ScaledQuot(Abs(a.v), Abs(b.v))
           IN IF q = 0 THEN SignedZero(Sign(a) * Sign(b))
              ELSE F(Sign(a) * Sign(b) * q)

\* c * a for a positive integer c
FMulInt(c, a) == IF a.k = "num" THEN F(c * a.v) ELSE a

\* the position of a non-NaN value on the extended real line
Rank(a) == CASE a.k = "ninf" -> <<-1, 0>> [] a.k = "inf" -> <<1, 0>> [] OTHER -> <<0, a.v>>

\* faulty variant of FLt: NaN compares like 0
FLtNaNAsZero(a, b) ==
    \/ Rank(a)[1] < Rank(b)[1]
    \/ Rank(a)[1] = Rank(b)[1] /\ Rank(a)[2] < Rank(b)[2]

\* a < b: False when either is NaN
FLt(a, b) ==
    /\ ~IsNaN(a)
    /\ ~IsNaN(b)
    /\ \/ Rank(a)[1] < Rank(b)[1]
       \/ Rank(a)[1] = Rank(b)[1] /\ Rank(a)[2] < Rank(b)[2]

\* a > b: False when either is NaN
FGt(a, b) == FLt(b, a)

-----------------------------------------------------------------------------
(* Program constants *)

SMA_SHORT == 10
SMA_LONG == 50
EMA_SHORT == 10
EMA_LONG == 50
RSI_PERIOD == 14
MACD_SHORT == 12
MACD_LONG == 26
MACD_SIGNAL == 9
BB_PERIOD == 20
BB_STD_DEV == 2
MOMENTUM_PERIOD == 10
STOCH_PERIOD == 14
RSI_OVERSOLD == 30
STOCH_OVERBOUGHT == 80
STOCH_OVERSOLD == 20
NUM_COLUMNS == 12

-----------------------------------------------------------------------------
(* pandas Series operations; a Series is a sequence of floats *)

RECURSIVE SumRange(_, _, _)
\* the sum of the finite values s[lo] .. s[hi], in fixed point
SumRange(s, lo, hi) ==
    IF lo > hi THEN 0
    ELSE IF lo = hi THEN s[lo].v
    ELSE LET mid == (lo + hi) \div 2
         IN SumRange(s, lo, mid) + SumRange(s, mid + 1, hi)

RECURSIVE SumSqDev(_, _, _, _)
\* the sum of (s[i] - m)^2 for i in lo .. hi
SumSqDev(s, lo, hi, m) ==
    IF lo > hi THEN 0
    ELSE IF lo = hi THEN (s[lo].v - m) * (s[lo].v - m)
    ELSE LET mid == (lo + hi) \div 2
         IN SumSqDev(s, lo, mid, m) + SumSqDev(s, mid + 1, hi, m)

RECURSIVE SqrtFrom(_, _, _)
\* the largest r in lo .. hi with r * r <= n
SqrtFrom(n, lo, hi) ==
    IF lo >= hi THEN lo
    ELSE LET mid == (lo + hi + 1) \div 2
         IN IF mid * mid <= n THEN SqrtFrom(n, mid, hi) ELSE SqrtFrom(n, lo, mid - 1)

ISqrt(n) == SqrtFrom(n, 0, 46340)

RECURSIVE Pow(_, _)
Pow(b, e) == IF e = 0 THEN 1 ELSE b * Pow(b, e - 1)

\* n / d rounded to the nearest integer, d > 0
RoundDiv(n, d) == (2 * n + d) \div (2 * d)

\* a Series computed once and kept: the function f over 1 .. n as the
\* sequence of its values
Stored(f) == f \o << >>

\* a full window of finite values ends at i (min_periods defaults to window)
WindowOk(s, i, window) ==
    i >= window /\ \A j \in (i - window + 1)..i : s[j].k = "num"

\* series.rolling(window).mean()
RollingMean(s, window) ==
    Stored([i \in 1..Len(s) |->
        IF WindowOk(s, i, window)
        THEN F(RoundDiv(SumRange(s, i - window + 1, i), window))
        ELSE NaN])

\* series.rolling(window).std(): the sample standard deviation (ddof = 1)
RollingStd(s, window) ==
    Stored([i \in 1..Len(s) |->
        IF WindowOk(s, i, window)
        THEN LET m == RoundDiv(SumRange(s, i - window + 1, i), window)
             IN F(ISqrt(SumSqDev(s, i - window + 1, i, m) \div (window - 1)))
        ELSE NaN])

\* series.rolling(window).min()
RollingMin(s, window) ==
    Stored([i \in 1..Len(s) |->
        IF WindowOk(s, i, window)
        THEN F(CHOOSE m \in {s[j].v : j \in (i - window + 1)..i} :
                 \A j \in (i - window + 1)..i : m <= s[j].v)
        ELSE NaN])

\* series.rolling(window).max()
RollingMax(s, window) ==
    Stored([i \in 1..Len(s) |->
        IF WindowOk(s, i, window)
        THEN F(CHOOSE m \in {s[j].v : j \in (i - window + 1)..i} :
                 \A j \in (i - window + 1)..i : m >= s[j].v)
        ELSE NaN])

\* series.diff(period)
Diff(s, period) ==
    Stored([i \in 1..Len(s) |-> IF i <= period THEN NaN ELSE FSub(s[i], s[i - period])])

\* one step of pandas' ewm recurrence (adjust=False, ignore_na=False): st is
\* the running weighted average and the number of NaN rows since the last
\* observation; old_wt = (1 - alpha)^(gap + 1), new_wt = alpha = 2 / (span + 1)
EwmStep(st, cur, span) ==
    IF IsNaN(st.weighted)
    THEN [weighted |-> cur, gap |-> 0]
    ELSE IF IsNaN(cur)
         THEN [weighted |-> st.weighted, gap |-> st.gap + 1]
         ELSE IF st.weighted = cur
              THEN [weighted |-> cur, gap |-> 0]
              ELSE LET oldw == Pow(span - 1, st.gap + 1)
                       neww == 2 * Pow(span + 1, st.gap)
                   IN [weighted |->
                         F(RoundDiv(oldw * st.weighted.v + neww * cur.v, oldw + neww)),
                       gap |-> 0]

RECURSIVE EwmRun(_, _, _, _, _)
\* the states of the recurrence after rows lo .. hi, from the state st0
\* before row lo; the rows are taken in order, the first half before the second
EwmRun(s, span, lo, hi, st0) ==
    IF lo = hi THEN << EwmStep(st0, s[lo], span) >>
    ELSE LET mid == (lo + hi) \div 2
             left == EwmRun(s, span, lo, mid, st0)
         IN left \o EwmRun(s, span, mid + 1, hi, left[Len(left)])

\* series.ewm(span=span, adjust=False).mean()
EwmMean(s, span) ==
    IF Len(s) = 0 THEN << >>
    ELSE LET st == EwmRun(s, span, 1, Len(s), [weighted |-> NaN, gap |-> 0])
         IN Stored([i \in 1..Len(s) |-> st[i].weighted])

\* the column of a frame: df[name]
Column(frame, name) == Stored([i \in 1..Len(frame) |-> frame[i][name]])

-----------------------------------------------------------------------------
(* The indicators *)

\* delta.where(delta > 0, 0)
WherePositive(delta) ==
    Stored([i \in 1..Len(delta) |-> IF FGt(delta[i], Zero) THEN delta[i] ELSE Zero])

\* delta.where(delta < 0, 0)
WhereNegative(delta) ==
    Stored([i \in 1..Len(delta) |-> IF FLt(delta[i], Zero) THEN delta[i] ELSE Zero])

\* faulty variant of compute_rsi: a zero average loss is special-cased to 100
compute_rsi_zero_loss_100(series, period) ==
    LET delta == Diff(series, 1)
        gain == RollingMean(WherePositive(delta), period)
        mloss == RollingMean(WhereNegative(delta), period)
    IN Stored([i \in 1..Len(series) |->
          LET loss == FNeg(mloss[i])
              rs == FDiv(gain[i], loss)
          IN IF IsZero(loss) THEN F(100 * Scale)
             ELSE FSub(F(100 * Scale), FDiv(F(100 * Scale), FAdd(F(Scale), rs)))])

compute_rsi(series, period) ==
    LET delta == Diff(series, 1)
        gain == RollingMean(WherePositive(delta), period)
        mloss == RollingMean(WhereNegative(delta), period)
    IN Stored([i \in 1..Len(series) |->
          LET loss == FNeg(mloss[i])
              rs == FDiv(gain[i], loss)
          IN FSub(F(100 * Scale), FDiv(F(100 * Scale), FAdd(F(Scale), rs)))])

compute_macd(series, short_period, long_period, signal_period) ==
    LET short_ema == EwmMean(series, short_period)
        long_ema == EwmMean(series, long_period)
        macd == Stored([i \in 1..Len(series) |-> FSub(short_ema[i], long_ema[i])])
    IN [macd |-> macd, signal |-> EwmMean(macd, signal_period)]

compute_bollinger_bands(series, period, std_dev) ==
    LET sma == RollingMean(series, period)
        std == RollingStd(series, period)
    IN [upper_band |-> Stored([i \in 1..Len(series) |-> FAdd(sma[i], FMulInt(std_dev, std[i]))]),
        lower_band |-> Stored([i \in 1..Len(series) |-> FSub(sma[i], FMulInt(std_dev, std[i]))])]

compute_momentum(series, period) == Diff(series, period)

compute_stoch_rsi(series, period) ==
    LET min_val == RollingMin(series, period)
        max_val == RollingMax(series, period)
    IN Stored([i \in 1..Len(series) |->
          FDiv(FMulInt(100, FSub(series[i], min_val[i])), FSub(max_val[i], min_val[i]))])

calculate_indicators(frame) ==
    LET close == Column(frame, "close")
        sma10 == RollingMean(close, SMA_SHORT)
        sma50 == RollingMean(close, SMA_LONG)
        ema10 == EwmMean(close, EMA_SHORT)
        ema50 == EwmMean(close, EMA_LONG)
        rsi == compute_rsi(close, RSI_PERIOD)
        m == compute_macd(close, MACD_SHORT, MACD_LONG, MACD_SIGNAL)
        bb == compute_bollinger_bands(close, BB_PERIOD, BB_STD_DEV)
        mom == compute_momentum(close, MOMENTUM_PERIOD)
        stoch == compute_stoch_rsi(rsi, STOCH_PERIOD)
    IN Stored([i \in 1..Len(frame) |->
          [close |-> close[i], SMA_10 |-> sma10[i], SMA_50 |-> sma50[i],
           EMA_10 |-> ema10[i], EMA_50 |-> ema50[i], RSI |-> rsi[i],
           MACD |-> m.macd[i], Signal |-> m.signal[i],
           Upper_Band |-> bb.upper_band[i], Lower_Band |-> bb.lower_band[i],
           Momentum |-> mom[i], Stoch_RSI |-> stoch[i]]])

-----------------------------------------------------------------------------
(* The signal rules *)

\* faulty variant of SignalRules: the MACD rule is tested first
SignalRulesMacdFirst(latest) ==
    << [hit |-> FGt(latest.MACD, latest.Signal), label |-> "BUY: MACD Trend"],
       [hit |-> FGt(latest.SMA_10, latest.SMA_50), label |-> "BUY: SMA Crossover"],
       [hit |-> FGt(latest.EMA_10, latest.EMA_50), label |-> "BUY: EMA Crossover"],
       [hit |-> FLt(latest.RSI, F(RSI_OVERSOLD * Scale)), label |-> "BUY: RSI Oversold"],
       [hit |-> FGt(latest.close, latest.Upper_Band),
        label |-> "SELL: Bollinger Band Breakout (Overbought)"],
       [hit |-> FLt(latest.close, latest.Lower_Band),
        label |-> "BUY: Bollinger Band Breakout (Oversold)"],
       [hit |-> FGt(latest.Momentum, Zero), label |-> "BUY: Positive Momentum"],
       [hit |-> FLt(latest.Momentum, Zero), label |-> "SELL: Negative Momentum"],
       [hit |-> FGt(latest.Stoch_RSI, F(STOCH_OVERBOUGHT * Scale)),
        label |-> "SELL: Stochastic RSI Overbought"],
       [hit |-> FLt(latest.Stoch_RSI, F(STOCH_OVERSOLD * Scale)),
        label |-> "BUY: Stochastic RSI Oversold"] >>

\* the rule list of get_signals, in order: one test and one label each
SignalRules(latest) ==
    << [hit |-> FGt(latest.SMA_10, latest.SMA_50), label |-> "BUY: SMA Crossover"],
       [hit |-> FGt(latest.EMA_10, latest.EMA_50), label |-> "BUY: EMA Crossover"],
       [hit |-> FLt(latest.RSI, F(RSI_OVERSOLD * Scale)), label |-> "BUY: RSI Oversold"],
       [hit |-> FGt(latest.MACD, latest.Signal), label |-> "BUY: MACD Trend"],
       [hit |-> FGt(latest.close, latest.Upper_Band),
        label |-> "SELL: Bollinger Band Breakout (Overbought)"],
       [hit |-> FLt(latest.close, latest.Lower_Band),
        label |-> "BUY: Bollinger Band Breakout (Oversold)"],
       [hit |-> FGt(latest.Momentum, Zero), label |-> "BUY: Positive Momentum"],
       [hit |-> FLt(latest.Momentum, Zero), label |-> "SELL: Negative Momentum"],
       [hit |-> FGt(latest.Stoch_RSI, F(STOCH_OVERBOUGHT * Scale)),
        label |-> "SELL: Stochastic RSI Overbought"],
       [hit |-> FLt(latest.Stoch_RSI, F(STOCH_OVERSOLD * Scale)),
        label |-> "BUY: Stochastic RSI Oversold"] >>

RECURSIVE AppendHits(_, _)
\* the labels of the first n rules that hit, in rule order
AppendHits(rules, n) ==
    IF n = 0 THEN << >>
    ELSE IF rules[n].hit THEN Append(AppendHits(rules, n - 1), rules[n].label)
         ELSE AppendHits(rules, n - 1)

\* get_signals on a non-empty frame
get_signals(frame) ==
    LET latest == frame[Len(frame)]
    IN AppendHits(SignalRules(latest), 10)

-----------------------------------------------------------------------------
(* What the exchange can answer *)

NoResponse == [kind |-> "none"]
Defects == {"none", "nan_last", "nan_inner", "bad_close", "bad_shape"}
Steps == (0 - MaxStep)..MaxStep
Patterns == Steps \X Steps

\* the answers with well-formed bars, and a few series with one defective bar
Inputs ==
    [n : 0..MaxBars, pat : Patterns, shock : {0 - MaxShock, 0, MaxShock}, defect : {"none"}]
    \cup [n : 1..MaxBars, pat : {<<1, 1>>, <<0, 0>>},
          shock : {0}, defect : Defects \ {"none"}]

\* the close of bar i of the series an input describes, in price units: the
\* two steps alternate from bar 2 on, and the last bar takes the shock
CloseAt(in, i) ==
    BasePrice + in.pat[1] * (i \div 2) + in.pat[2] * ((i - 1) \div 2)
    + (IF i = in.n THEN in.shock ELSE 0)

\* the "close" string of bar i as the exchange sends it
CloseToken(in, i) ==
    CASE in.defect = "nan_last" /\ i = in.n -> [t |-> "nan", x |-> 0]
      [] in.defect = "nan_inner" /\ i = in.n - 1 -> [t |-> "nan", x |-> 0]
      [] in.defect = "bad_close" /\ i = in.n -> [t |-> "bad", x |-> 0]
      [] OTHER -> [t |-> "num", x |-> CloseAt(in, i)]

\* the list client.get_klines returns: per bar its number of fields and its close
Klines(in) ==
    [i \in 1..in.n |->
        [ncols |-> IF in.defect = "bad_shape" /\ i = in.n THEN NUM_COLUMNS - 1
                   ELSE NUM_COLUMNS,
         close |-> CloseToken(in, i)]]

-----------------------------------------------------------------------------
(* get_historical_data *)

\* float(text) of one close: the number, NaN for "nan"
ParseFloat(tok) == IF tok.t = "num" THEN F(tok.x * Scale) ELSE NaN

\* pd.DataFrame(klines, columns=[12 names]) raises ValueError unless every
\* bar has 12 fields; astype(float) raises ValueError on an unparseable close
FrameError(raw) ==
    IF \E i \in 1..Len(raw) : raw[i].ncols # NUM_COLUMNS THEN "ValueError"
    ELSE IF \E i \in 1..Len(raw) : raw[i].close.t = "bad" THEN "ValueError"
    ELSE "none"

\* the frame get_historical_data returns: the close column as floats
MakeFrame(raw) == [i \in 1..Len(raw) |-> [close |-> ParseFloat(raw[i].close)]]

-----------------------------------------------------------------------------
(* The /bitcoin request: track_price, one action per statement *)

Init ==
    /\ pc = "start"
    /\ chosen \in Inputs
    /\ creds \in BOOLEAN
    /\ klines = << >>
    /\ df = << >>
    /\ signals = << >>
    /\ price = NaN
    /\ tasks = << >>
    /\ response = NoResponse
    /\ error = "none"
    /\ posted = << >>
    /\ log = << >>
    /\ taskError = "none"

\* client.get_klines raises: get_historical_data raises HTTPException(500)
GetKlinesFails ==
    /\ pc = "start"
    /\ pc' = "failed"
    /\ error' = "HTTPException"
    /\ UNCHANGED <<chosen, klines, df, signals, price, tasks, response, creds,
                   posted, log, taskError>>

\* df = get_historical_data()
GetHistoricalData ==
    /\ pc = "start"
    /\ klines' = Klines(chosen)
    /\ IF FrameError(klines') # "none"
       THEN /\ pc' = "failed"
            /\ error' = FrameError(klines')
            /\ df' = df
       ELSE /\ pc' = "fetched"
            /\ error' = error
            /\ df' = MakeFrame(klines')
    /\ UNCHANGED <<chosen, signals, price, tasks, response, creds, posted, log,
                   taskError>>

\* df = calculate_indicators(df)
CalculateIndicators ==
    /\ pc = "fetched"
    /\ df' = calculate_indicators(df)
    /\ pc' = "enriched"
    /\ UNCHANGED <<chosen, klines, signals, price, tasks, response, error, creds,
                   posted, log, taskError>>

\* signals = get_signals(df): df.iloc[-1] raises IndexError on an empty frame
GetSignals ==
    /\ pc = "enriched"
    /\ IF Len(df) = 0
       THEN /\ pc' = "failed"
            /\ error' = "IndexError"
            /\ signals' = signals
       ELSE /\ pc' = "evaluated"
            /\ error' = error
            /\ signals' = get_signals(df)
    /\ UNCHANGED <<chosen, klines, df, price, tasks, response, creds, posted, log,
                   taskError>>

\* price = df.iloc[-1]["close"]
ReadPrice ==
    /\ pc = "evaluated"
    /\ price' = df[Len(df)].close
    /\ pc' = "priced"
    /\ UNCHANGED <<chosen, klines, df, signals, tasks, response, error, creds,
                   posted, log, taskError>>

\* the text of the alert: the price and the labels
FormatMessage(p, sigs) == [price |-> p, signals |-> sigs]

\* faulty variant of ScheduleAlert: the alert is scheduled whatever the list
ScheduleAlertAlways ==
    /\ pc = "priced"
    /\ tasks' = Append(tasks, FormatMessage(price, signals))
    /\ pc' = "scheduled"
    /\ UNCHANGED <<chosen, klines, df, signals, price, response, error, creds,
                   posted, log, taskError>>

\* if signals: background_tasks.add_task(send_telegram_alert, message)
ScheduleAlert ==
    /\ pc = "priced"
    /\ tasks' = IF signals # << >>
                THEN Append(tasks, FormatMessage(price, signals))
                ELSE tasks
    /\ pc' = "scheduled"
    /\ UNCHANGED <<chosen, klines, df, signals, price, response, error, creds,
                   posted, log, taskError>>

\* return JSONResponse(content=...): the JSON encoder refuses NaN and the
\* infinities (allow_nan=False) with a ValueError
Respond ==
    /\ pc = "scheduled"
    /\ IF price.k = "num"
       THEN /\ response' = [kind |-> "json", price |-> price, signals |-> signals]
            /\ pc' = "responded"
            /\ error' = error
       ELSE /\ response' = response
            /\ pc' = "failed"
            /\ error' = "ValueError: not JSON compliant"
    /\ UNCHANGED <<chosen, klines, df, signals, price, tasks, creds, posted, log,
                   taskError>>

-----------------------------------------------------------------------------
(* send_telegram_alert, run as a background task once the response is out *)

\* requests.post answers 200, answers another status, or raises
PostOutcomes == {"200", "non200", "raise"}

send_telegram_alert(message, outcome) ==
    IF ~creds
    THEN /\ log' = Append(log, "warning: credentials missing")
         /\ posted' = posted
         /\ taskError' = taskError
    ELSE CASE outcome = "200" ->
                /\ posted' = Append(posted, [text |-> message, status |-> "200"])
                /\ log' = log
                /\ taskError' = taskError
           [] outcome = "non200" ->
                /\ posted' = Append(posted, [text |-> message, status |-> "non200"])
                /\ log' = Append(log, "error: failed to send")
                /\ taskError' = taskError
           [] OTHER ->
                /\ posted' = posted
                /\ log' = log
                /\ taskError' = "RequestException"

RunTask ==
    /\ pc = "responded"
    /\ tasks # << >>
    /\ \E outcome \in PostOutcomes : send_telegram_alert(tasks[1], outcome)
    /\ tasks' = Tail(tasks)
    /\ pc' = "alerted"
    /\ UNCHANGED <<chosen, klines, df, signals, price, response, error, creds>>

Next ==
    \/ GetKlinesFails
    \/ GetHistoricalData
    \/ CalculateIndicators
    \/ GetSignals
    \/ ReadPrice
    \/ ScheduleAlert
    \/ Respond
    \/ RunTask

Spec == Init /\ [][Next]_vars

-----------------------------------------------------------------------------
(* Vocabulary of the properties *)

Has(seq, x) == \E i \in 1..Len(seq) : seq[i] = x
Latest == df[Len(df)]
\* calculate_indicators has run on the frame
Enriched ==
    \/ pc \in {"enriched", "evaluated", "priced", "scheduled", "responded", "alerted"}
    \/ error \in {"IndexError", "ValueError: not JSON compliant"}
\* get_signals has returned
Evaluated ==
    \/ pc \in {"evaluated", "priced", "scheduled", "responded", "alerted"}
    \/ error = "ValueError: not JSON compliant"
Finite(a) == a.k = "num"
\* the three crossover rules: the two indicators and the labels of each
Crossovers ==
    { [a |-> "SMA_10", b |-> "SMA_50", buy |-> "BUY: SMA Crossover",
       sell |-> "SELL: SMA Crossover"],
      [a |-> "EMA_10", b |-> "EMA_50", buy |-> "BUY: EMA Crossover",
       sell |-> "SELL: EMA Crossover"],
      [a |-> "MACD", b |-> "Signal", buy |-> "BUY: MACD Trend",
       sell |-> "SELL: MACD Trend"] }
\* the position of a label's rule in the rule table: SMA, EMA, RSI, MACD,
\* Bollinger, Momentum, Stochastic
RuleIndex(label) ==
    CASE label \in {"BUY: SMA Crossover", "SELL: SMA Crossover"} -> 1
      [] label \in {"BUY: EMA Crossover", "SELL: EMA Crossover"} -> 2
      [] label \in {"BUY: RSI Oversold", "SELL: RSI Overbought"} -> 3
      [] label \in {"BUY: MACD Trend", "SELL: MACD Trend"} -> 4
      [] label \in {"SELL: Bollinger Band Breakout (Overbought)",
                    "BUY: Bollinger Band Breakout (Oversold)"} -> 5
      [] label \in {"BUY: Positive Momentum", "SELL: Negative Momentum"} -> 6
      [] label \in {"SELL: Stochastic RSI Overbought",
                    "BUY: Stochastic RSI Oversold"} -> 7
      [] OTHER -> 0
\* the closes of the frame are finite and strictly increasing
StrictlyIncreasing ==
    /\ \A i \in 1..Len(df) : Finite(df[i].close)
    /\ \A i \in 2..Len(df) : df[i].close.v > df[i - 1].close.v
\* the closes of the frame are finite and all equal
ConstantPrice ==
    \A i \in 1..Len(df) : Finite(df[i].close) /\ df[i].close = df[1].close
\* a bar the exchange should never send: a field missing, or a close that
\* is not a finite number
MalformedBar(bar) == bar.ncols # NUM_COLUMNS \/ bar.close.t # "num"
\* get_klines has answered (it did not raise)
Answered == pc # "start" /\ error # "HTTPException"

-----------------------------------------------------------------------------
(* C1: once get_signals has returned, for each crossover rule (SMA_10 vs    *)
(* SMA_50, EMA_10 vs EMA_50, MACD vs Signal) with both values defined, the  *)
(* list holds the rule's SELL label when the first is below the second and  *)
(* its BUY label when the first is above the second.                        *)
C1_CrossoverBuyAndSell ==
    Evaluated =>
        \A r \in Crossovers :
            (Finite(Latest[r.a]) /\ Finite(Latest[r.b])) =>
                /\ Latest[r.a].v < Latest[r.b].v => Has(signals, r.sell)
                /\ Latest[r.a].v > Latest[r.b].v => Has(signals, r.buy)

(* C2: once get_signals has returned on a row with a defined RSI, the list  *)
(* holds BUY RSI-oversold when RSI < 30, SELL RSI-overbought when RSI > 70, *)
(* and no RSI label when RSI lies between the thresholds.                   *)
C2_RsiBuyAndSell ==
    (Evaluated /\ Finite(Latest.RSI)) =>
        /\ Latest.RSI.v < RSI_OVERSOLD * Scale => Has(signals, "BUY: RSI Oversold")
        /\ Latest.RSI.v > 70 * Scale => Has(signals, "SELL: RSI Overbought")
        /\ (Latest.RSI.v >= RSI_OVERSOLD * Scale /\ Latest.RSI.v <= 70 * Scale) =>
              /\ ~Has(signals, "BUY: RSI Oversold")
              /\ ~Has(signals, "SELL: RSI Overbought")

(* C3: on a non-empty enriched frame get_signals does not raise; a rule     *)
(* that reads an undefined (NaN) indicator of the last row adds no label,   *)
(* and a rule whose indicators are all defined adds its label exactly when  *)
(* its comparison of the values holds, whatever else is undefined.          *)
C3_UndefinedIndicatorsSkipRule ==
    /\ error = "IndexError" => Len(df) = 0
    /\ Evaluated =>
        LET row == Latest
            Emits(label, fields, cond) ==
                IF \A f \in fields : Finite(row[f])
                THEN Has(signals, label) <=> cond
                ELSE (\E f \in fields : IsNaN(row[f])) /\ ~Has(signals, label)
        IN /\ Emits("BUY: SMA Crossover", {"SMA_10", "SMA_50"},
                    row.SMA_10.v > row.SMA_50.v)
           /\ Emits("BUY: EMA Crossover", {"EMA_10", "EMA_50"},
                    row.EMA_10.v > row.EMA_50.v)
           /\ Emits("BUY: RSI Oversold", {"RSI"}, row.RSI.v < RSI_OVERSOLD * Scale)
           /\ Emits("BUY: MACD Trend", {"MACD", "Signal"}, row.MACD.v > row.Signal.v)
           /\ Emits("SELL: Bollinger Band Breakout (Overbought)",
                    {"close", "Upper_Band"}, row.close.v > row.Upper_Band.v)
           /\ Emits("BUY: Bollinger Band Breakout (Oversold)",
                    {"close", "Lower_Band"}, row.close.v < row.Lower_Band.v)
           /\ Emits("BUY: Positive Momentum", {"Momentum"}, row.Momentum.v > 0)
           /\ Emits("SELL: Negative Momentum", {"Momentum"}, row.Momentum.v < 0)
           /\ Emits("SELL: Stochastic RSI Overbought", {"Stoch_RSI"},
                    row.Stoch_RSI.v > STOCH_OVERBOUGHT * Scale)
           /\ Emits("BUY: Stochastic RSI Oversold", {"Stoch_RSI"},
                    row.Stoch_RSI.v < STOCH_OVERSOLD * Scale)

\* a row with SMA_50 undefined whose defined momentum still yields its label
C3_Witness ==
    /\ pc = "evaluated"
    /\ IsNaN(Latest.SMA_50)
    /\ Finite(Latest.SMA_10)
    /\ ~Has(signals, "BUY: SMA Crossover")
    /\ Finite(Latest.Momentum)
    /\ Has(signals, "SELL: Negative Momentum")

(* C4: a request schedules the alert at most once, exactly when the         *)
(* computed signal list is non-empty, and only once the signals and the     *)
(* price are computed; the response is returned while the alert is still    *)
(* pending, and send_telegram_alert runs only after it.                     *)
C4_ScheduleOnceAfterCompute ==
    /\ Len(tasks) <= 1
    /\ pc \in {"start", "fetched", "enriched", "evaluated", "priced"} => tasks = << >>
    /\ tasks # << >> =>
         /\ Evaluated
         /\ tasks[1] = FormatMessage(Latest.close, get_signals(df))
    /\ pc \in {"scheduled", "responded"} => (tasks # << >> <=> signals # << >>)
    /\ pc = "responded" =>
         /\ response = [kind |-> "json", price |-> price, signals |-> signals]
         /\ posted = << >> /\ log = << >> /\ taskError = "none"
    /\ (posted # << >> \/ log # << >> \/ taskError # "none") =>
         /\ pc = "alerted"
         /\ response # NoResponse
         /\ tasks = << >>
         /\ Len(posted) <= 1

\* the response is out and the alert of a non-empty signal list is pending
C4_Witness ==
    /\ pc = "responded"
    /\ signals # << >>
    /\ Len(tasks) = 1
    /\ posted = << >>

(* C5: whatever the transport does (credentials missing, 200, another       *)
(* status, an exception), once the alert has run no exception has left      *)
(* send_telegram_alert, a delivery that failed is logged, and the response  *)
(* of the request is the {price, signals} it computed.                      *)
C5_AlertFailureLoggedNotRaised ==
    pc = "alerted" =>
        /\ taskError = "none"
        /\ (\A i \in 1..Len(posted) : posted[i].status = "200") \/ log # << >>
        /\ posted = << >> => log # << >>
        /\ response = [kind |-> "json", price |-> price, signals |-> signals]

(* C6: when get_klines raises or answers with a malformed bar, the request  *)
(* fails: no indicator and no signal is computed, no alert is scheduled     *)
(* and no response is returned.                                             *)
C6_UpstreamErrorFailsRequest ==
    (error = "HTTPException" \/ \E i \in 1..Len(klines) : MalformedBar(klines[i])) =>
        /\ ~Enriched
        /\ signals = << >>
        /\ tasks = << >>
        /\ response = NoResponse

(* C7: when the exchange answers with fewer bars than the longest warm-up   *)
(* window (50), the request returns no {price, signals} response and        *)
(* schedules no alert.                                                      *)
C7_ShortHistoryRejected ==
    (Answered /\ Len(klines) < SMA_LONG) =>
        /\ response = NoResponse
        /\ tasks = << >>

(* C8: the list get_signals returned follows the rule table (SMA, EMA,      *)
(* RSI, MACD, Bollinger, Momentum, Stochastic): every label belongs to a    *)
(* rule, and the rules of the labels strictly increase along the list, so   *)
(* each rule adds at most one label and no label occurs twice; evaluating   *)
(* the same frame again returns the list the request holds.                 *)
C8_SignalsInRuleOrder ==
    Evaluated =>
        /\ signals = get_signals(df)
        /\ \A i \in 1..Len(signals) : RuleIndex(signals[i]) \in 1..7
        /\ \A i \in 1..Len(signals) : \A j \in 1..Len(signals) :
              i < j => RuleIndex(signals[i]) < RuleIndex(signals[j])

\* a list with labels of at least four rules, a Bollinger label among them
C8_Witness ==
    /\ pc = "evaluated"
    /\ Len(signals) >= 4
    /\ \E i \in 1..Len(signals) : RuleIndex(signals[i]) = 5

(* C9: on a strictly increasing close series the RSI is exactly 100 at      *)
(* every 0-based index from 14 on and the momentum is positive at every     *)
(* index from 10 on; with at least 50 bars get_signals returns the          *)
(* positive-momentum BUY and not the RSI-oversold BUY.                      *)
C9_IncreasingSeries ==
    (Enriched /\ StrictlyIncreasing) =>
        /\ \A i \in (RSI_PERIOD + 1)..Len(df) : df[i].RSI = F(100 * Scale)
        /\ \A i \in (MOMENTUM_PERIOD + 1)..Len(df) :
              Finite(df[i].Momentum) /\ df[i].Momentum.v > 0
        /\ (Evaluated /\ Len(df) >= SMA_LONG) =>
              /\ Has(signals, "BUY: Positive Momentum")
              /\ ~Has(signals, "BUY: RSI Oversold")

\* get_signals has returned on an increasing series past every warm-up
C9_Witness ==
    /\ pc = "evaluated"
    /\ StrictlyIncreasing
    /\ Len(df) >= SMA_LONG
    /\ Latest.RSI = F(100 * Scale)
    /\ Has(signals, "BUY: Positive Momentum")

(* C10: on a constant close series of at least 50 bars calculate_indicators *)
(* and get_signals complete; in the last row SMA_10, SMA_50, EMA_10 and     *)
(* EMA_50 equal the constant, RSI and Stoch_RSI are undefined, and the      *)
(* list holds no RSI label and no Stochastic label.                         *)
C10_ConstantSeries ==
    (Answered /\ error # "ValueError" /\ pc # "fetched"
        /\ Len(df) >= SMA_LONG /\ ConstantPrice) =>
        /\ Enriched
        /\ error = "none"
        /\ Latest.SMA_10 = Latest.close
        /\ Latest.SMA_50 = Latest.close
        /\ Latest.EMA_10 = Latest.close
        /\ Latest.EMA_50 = Latest.close
        /\ IsNaN(Latest.RSI)
        /\ IsNaN(Latest.Stoch_RSI)
        /\ pc # "enriched" =>
              /\ Evaluated
              /\ \A i \in 1..Len(signals) : RuleIndex(signals[i]) \notin {3, 7}

\* get_signals has returned on a constant series past every warm-up
C10_Witness ==
    /\ pc = "evaluated"
    /\ ConstantPrice
    /\ Len(df) >= SMA_LONG
    /\ Latest.SMA_50 = Latest.close
    /\ IsNaN(Latest.RSI)

====
